---- MODULE Spec2Model ----
(***************************************************************************)
(* Lifecycle of the App class of src/src/app.ts: construction, init(),     *)
(* the SIGINT handler registered by useDatabase() and the listening        *)
(* callback, on the single-threaded event loop of the host runtime.        *)
(*                                                                         *)
(* Synchronous code runs to completion, so every action below is one run   *)
(* of synchronous code: from a call or a resumption up to the next await   *)
(* or return.  A continuation of an await is a microtask; signal delivery, *)
(* the listening callback and the report of an unhandled rejection are     *)
(* macrotasks, which the loop runs only when no microtask is queued.  A    *)
(* settled promise queues its continuation at once, and the loop drains    *)
(* the microtask queue before it takes up any other event, so a settlement *)
(* is followed by its continuation before anything else happens.           *)
(***************************************************************************)
EXTENDS Integers, Sequences, FiniteSets, TLC

\* Bounds of the model.
MaxInits == 2        \* init() calls made on the one App instance
MaxSigints == 2      \* interrupt signals delivered to the process
MaxRuns == 4         \* runs of the SIGINT handler, over all signals

\* Values the configuration collaborator may hold for server.port.
Ports == {3000, 4000}

\* Failures memoryStorage.connect() may reject with.
Errors == {"ECONNREFUSED", "ETIMEDOUT"}

InitIds == 1..MaxInits

VARIABLES
    config,        \* what configService.get(section) returns, by section
    configGets,    \* number of configService.get calls made so far
    port,          \* App.port
    chain,         \* App.app: the express stack, in registration order
    nCalled,       \* number of init() calls made so far
    pc,            \* per init() call: where the call stands
    trace,         \* per init() call: the steps it has performed, in order
    connect,       \* per init() call: state of its memoryStorage.connect() promise
    dbResult,      \* per init() call: how its useDatabase() promise settled
    initResult,    \* per init() call: how the promise returned by init() settled
    handlers,      \* process 'SIGINT' listeners, in registration order (init ids)
    sigAtReg,      \* per init() call: signals delivered before its handler was added
    sigints,       \* number of interrupt signals delivered so far
    invocations,   \* runs of the SIGINT handler, each with its disconnect() promise
    listens,       \* app.listen calls, with whether the listening callback fired
    logs,          \* loggerService.info calls
    exitCalls,     \* process.exit calls made by the handler
    proc           \* "running", "exited", "killed" (default SIGINT), "crashed"

vars == <<config, configGets, port, chain, nCalled, pc, trace, connect, dbResult,
          initResult, handlers, sigAtReg, sigints, invocations, listens, logs,
          exitCalls, proc>>

----
\* Collaborators and pure helpers

\* configService.get<TServerConfig>(section)
ConfigGet(cfg, section) == cfg[section]

\* The constructor's read of the port: this.configService.get('server').port
ConstructorPort(cfg) == ConfigGet(cfg, "server").port

\* The template literal `Server started listening on port ${this.port}`
ListenMessage(p) == "Server started listening on port " \o ToString(p)

\* useMiddleware(): four app.use calls
useMiddleware(stack) == stack \o <<"helmet", "urlencoded", "json", "morgan">>

\* useRoutes(): app.use('/users', router)
useRoutes(stack) == Append(stack, "/users")

\* useExceptionFilters(): app.use(exceptionFilter.catch.bind(exceptionFilter))
useExceptionFilters(stack) == Append(stack, "exceptionFilter")

\* A continuation is queued: the loop runs it before any macrotask.
MicrotaskPending ==
    \/ \E id \in InitIds : pc[id] = "awaitConnect" /\ connect[id] # "pending"
    \/ \E id \in InitIds : pc[id] = "awaitUseDatabase"
    \/ \E h \in 1..Len(invocations) :
           invocations[h].pc = "await" /\ invocations[h].disc # "pending"

----
Init ==
    /\ config \in {[server |-> [port |-> p]] : p \in Ports}
    /\ configGets = 1
    /\ port = ConstructorPort(config)
    /\ chain = <<>>
    /\ nCalled = 0
    /\ pc = [id \in InitIds |-> "uncalled"]
    /\ trace = [id \in InitIds |-> <<>>]
    /\ connect = [id \in InitIds |-> "none"]
    /\ dbResult = [id \in InitIds |-> "none"]
    /\ initResult = [id \in InitIds |-> "none"]
    /\ handlers = <<>>
    /\ sigAtReg = [id \in InitIds |-> 0]
    /\ sigints = 0
    /\ invocations = <<>>
    /\ listens = <<>>
    /\ logs = <<>>
    /\ exitCalls = <<>>
    /\ proc = "running"

\* Variant of InitCall: useDatabase() is not awaited, so listen() is called in
\* the same run, before connect() has settled.
InitCallNoAwait ==
    /\ proc = "running"
    /\ ~MicrotaskPending
    /\ nCalled < MaxInits
    /\ LET id == nCalled + 1 IN
         /\ nCalled' = id
         /\ chain' = useExceptionFilters(useRoutes(useMiddleware(chain)))
         /\ trace' = [trace EXCEPT ![id] =
                         useExceptionFilters(useRoutes(useMiddleware(<<>>)))
                             \o <<"connect", "listen">>]
         /\ listens' = Append(listens, [port |-> port, init |-> id, fired |-> FALSE])
         /\ connect' = [connect EXCEPT ![id] = "pending"]
         /\ pc' = [pc EXCEPT ![id] = "awaitConnect"]
    /\ UNCHANGED <<config, configGets, port, dbResult, initResult, handlers,
                   sigAtReg, sigints, invocations, logs, exitCalls, proc>>

\* Variant of InitCall: the exception filter is registered before the routes.
InitCallFilterBeforeRoutes ==
    /\ proc = "running"
    /\ ~MicrotaskPending
    /\ nCalled < MaxInits
    /\ LET id == nCalled + 1 IN
         /\ nCalled' = id
         /\ chain' = useRoutes(useExceptionFilters(useMiddleware(chain)))
         /\ trace' = [trace EXCEPT ![id] =
                         useRoutes(useExceptionFilters(useMiddleware(<<>>)))
                             \o <<"connect">>]
         /\ connect' = [connect EXCEPT ![id] = "pending"]
         /\ pc' = [pc EXCEPT ![id] = "awaitConnect"]
    /\ UNCHANGED <<config, configGets, port, dbResult, initResult, handlers,
                   sigAtReg, sigints, invocations, listens, logs, exitCalls, proc>>

\* init() is called: the synchronous part of init() and useDatabase(), up to
\* the await of memoryStorage.connect().
InitCall ==
    /\ proc = "running"
    /\ ~MicrotaskPending
    /\ nCalled < MaxInits
    /\ LET id == nCalled + 1 IN
         /\ nCalled' = id
         /\ chain' = useExceptionFilters(useRoutes(useMiddleware(chain)))
         /\ trace' = [trace EXCEPT ![id] =
                         useExceptionFilters(useRoutes(useMiddleware(<<>>)))
                             \o <<"connect">>]
         /\ connect' = [connect EXCEPT ![id] = "pending"]
         /\ pc' = [pc EXCEPT ![id] = "awaitConnect"]
    /\ UNCHANGED <<config, configGets, port, dbResult, initResult, handlers,
                   sigAtReg, sigints, invocations, listens, logs, exitCalls, proc>>

\* The promise of memoryStorage.connect() settles: it resolves, or rejects
\* with some failure.
ConnectSettle(id) ==
    /\ proc = "running"
    /\ ~MicrotaskPending
    /\ pc[id] = "awaitConnect"
    /\ connect[id] = "pending"
    /\ \E outcome \in {"resolved"} \cup Errors :
           connect' = [connect EXCEPT ![id] = outcome]
    /\ UNCHANGED <<config, configGets, port, chain, nCalled, pc, trace, dbResult,
                   initResult, handlers, sigAtReg, sigints, invocations, listens,
                   logs, exitCalls, proc>>

\* Variant of UseDatabaseResume: the SIGINT listener is added whether or not
\* connect() succeeded (as if the await were wrapped in try/finally).
UseDatabaseResumeAlwaysRegister(id) ==
    /\ proc = "running"
    /\ pc[id] = "awaitConnect"
    /\ connect[id] # "pending"
    /\ handlers' = Append(handlers, id)
    /\ sigAtReg' = [sigAtReg EXCEPT ![id] = sigints]
    /\ trace' = [trace EXCEPT ![id] = Append(@, "onSIGINT")]
    /\ dbResult' = [dbResult EXCEPT ![id] = connect[id]]
    /\ pc' = [pc EXCEPT ![id] = "awaitUseDatabase"]
    /\ UNCHANGED <<config, configGets, port, chain, nCalled, connect, initResult,
                   sigints, invocations, listens, logs, exitCalls, proc>>

\* useDatabase() resumes after its await: on success it adds the SIGINT
\* listener and returns; on failure the await throws out of useDatabase().
UseDatabaseResume(id) ==
    /\ proc = "running"
    /\ pc[id] = "awaitConnect"
    /\ connect[id] # "pending"
    /\ IF connect[id] = "resolved"
         THEN /\ handlers' = Append(handlers, id)
              /\ sigAtReg' = [sigAtReg EXCEPT ![id] = sigints]
              /\ trace' = [trace EXCEPT ![id] = Append(@, "onSIGINT")]
              /\ dbResult' = [dbResult EXCEPT ![id] = "resolved"]
         ELSE /\ dbResult' = [dbResult EXCEPT ![id] = connect[id]]
              /\ UNCHANGED <<handlers, sigAtReg, trace>>
    /\ pc' = [pc EXCEPT ![id] = "awaitUseDatabase"]
    /\ UNCHANGED <<config, configGets, port, chain, nCalled, connect, initResult,
                   sigints, invocations, listens, logs, exitCalls, proc>>

\* Variant of listen: the port is a literal instead of this.port.
listenLiteralPort(id) ==
    /\ listens' = Append(listens, [port |-> 3000, init |-> id, fired |-> FALSE])
    /\ trace' = [trace EXCEPT ![id] = Append(@, "listen")]
    /\ UNCHANGED <<config, configGets, port, logs>>

\* Variant of listen: the info line is logged right after app.listen returns
\* instead of in the listening callback.
listenLogsAtOnce(id) ==
    /\ listens' = Append(listens, [port |-> port, init |-> id, fired |-> FALSE])
    /\ trace' = [trace EXCEPT ![id] = Append(@, "listen")]
    /\ logs' = Append(logs, [level |-> "info", category |-> "app",
                             message |-> ListenMessage(port)])
    /\ UNCHANGED <<config, configGets, port>>

\* listen(): app.listen(this.port, callback)
listen(id) ==
    /\ listens' = Append(listens, [port |-> port, init |-> id, fired |-> FALSE])
    /\ trace' = [trace EXCEPT ![id] = Append(@, "listen")]
    /\ UNCHANGED <<config, configGets, port, logs>>

\* Variant of InitResume: a failure of useDatabase() is caught and startup
\* goes on.
InitResumeCatch(id) ==
    /\ proc = "running"
    /\ pc[id] = "awaitUseDatabase"
    /\ listen(id)
    /\ initResult' = [initResult EXCEPT ![id] = "resolved"]
    /\ pc' = [pc EXCEPT ![id] = "settled"]
    /\ UNCHANGED <<chain, nCalled, connect, dbResult, handlers, sigAtReg, sigints,
                   invocations, exitCalls, proc>>

\* init() resumes after `await this.useDatabase()`: it calls listen() and
\* returns, or the await throws out of init().
InitResume(id) ==
    /\ proc = "running"
    /\ pc[id] = "awaitUseDatabase"
    /\ IF dbResult[id] = "resolved"
         THEN /\ listen(id)
              /\ initResult' = [initResult EXCEPT ![id] = "resolved"]
         ELSE /\ initResult' = [initResult EXCEPT ![id] = dbResult[id]]
              /\ UNCHANGED <<config, configGets, port, listens, trace, logs>>
    /\ pc' = [pc EXCEPT ![id] = "settled"]
    /\ UNCHANGED <<chain, nCalled, connect, dbResult, handlers, sigAtReg, sigints,
                   invocations, exitCalls, proc>>

\* The listening callback of app.listen fires.
ListenCallback(i) ==
    /\ proc = "running"
    /\ ~MicrotaskPending
    /\ i \in 1..Len(listens)
    /\ ~listens[i].fired
    /\ listens' = [listens EXCEPT ![i].fired = TRUE]
    /\ logs' = Append(logs, [level |-> "info", category |-> "app",
                             message |-> ListenMessage(port)])
    /\ UNCHANGED <<config, configGets, port, chain, nCalled, pc, trace, connect,
                   dbResult, initResult, handlers, sigAtReg, sigints, invocations,
                   exitCalls, proc>>

\* Variant of Sigint: the handler calls process.exit(0) without disconnecting.
SigintNoDisconnect ==
    /\ proc = "running"
    /\ ~MicrotaskPending
    /\ sigints < MaxSigints
    /\ Len(invocations) + Len(handlers) <= MaxRuns
    /\ sigints' = sigints + 1
    /\ IF handlers = <<>>
         THEN /\ proc' = "killed"
              /\ UNCHANGED exitCalls
         ELSE /\ exitCalls' = Append(exitCalls, [code |-> 0, by |-> 0])
              /\ proc' = "exited"
    /\ UNCHANGED <<config, configGets, port, chain, nCalled, pc, trace, connect,
                   dbResult, initResult, handlers, sigAtReg, listens, logs,
                   invocations>>

\* Variant of Sigint: a shutdown already under way is not started again.
SigintGuarded ==
    /\ proc = "running"
    /\ ~MicrotaskPending
    /\ sigints < MaxSigints
    /\ Len(invocations) + Len(handlers) <= MaxRuns
    /\ sigints' = sigints + 1
    /\ IF handlers = <<>>
         THEN /\ proc' = "killed"
              /\ UNCHANGED invocations
         ELSE /\ invocations' =
                     IF invocations # <<>> THEN invocations
                     ELSE <<[handler |-> handlers[1], sig |-> sigints + 1,
                             disc |-> "pending", pc |-> "await"]>>
              /\ UNCHANGED proc
    /\ UNCHANGED <<config, configGets, port, chain, nCalled, pc, trace, connect,
                   dbResult, initResult, handlers, sigAtReg, listens, logs,
                   exitCalls>>

\* An interrupt signal is delivered.  With no listener the default
\* disposition ends the process; otherwise every listener runs, in
\* registration order, up to its await of memoryStorage.disconnect().
\* (The model follows at most MaxSigints signals and MaxRuns handler runs.)
Sigint ==
    /\ proc = "running"
    /\ ~MicrotaskPending
    /\ sigints < MaxSigints
    /\ Len(invocations) + Len(handlers) <= MaxRuns
    /\ sigints' = sigints + 1
    /\ IF handlers = <<>>
         THEN /\ proc' = "killed"
              /\ UNCHANGED invocations
         ELSE /\ invocations' = invocations \o
                     [i \in 1..Len(handlers) |->
                         [handler |-> handlers[i], sig |-> sigints + 1,
                          disc |-> "pending", pc |-> "await"]]
              /\ UNCHANGED proc
    /\ UNCHANGED <<config, configGets, port, chain, nCalled, pc, trace, connect,
                   dbResult, initResult, handlers, sigAtReg, listens, logs,
                   exitCalls>>

\* The promise of a memoryStorage.disconnect() call settles.
DisconnectSettle(h) ==
    /\ proc = "running"
    /\ ~MicrotaskPending
    /\ h \in 1..Len(invocations)
    /\ invocations[h].disc = "pending"
    /\ \E outcome \in {"resolved", "rejected"} :
           invocations' = [invocations EXCEPT ![h].disc = outcome]
    /\ UNCHANGED <<config, configGets, port, chain, nCalled, pc, trace, connect,
                   dbResult, initResult, handlers, sigAtReg, sigints, listens, logs,
                   exitCalls, proc>>

\* Variant of HandlerResume: disconnect() is not awaited, so process.exit(0)
\* is called while the disconnect is pending.
HandlerResumeNoAwait(h) ==
    /\ proc = "running"
    /\ h \in 1..Len(invocations)
    /\ invocations[h].pc = "await"
    /\ exitCalls' = Append(exitCalls, [code |-> 0, by |-> h])
    /\ proc' = "exited"
    /\ invocations' = [invocations EXCEPT ![h].pc = "exited"]
    /\ UNCHANGED <<config, configGets, port, chain, nCalled, pc, trace, connect,
                   dbResult, initResult, handlers, sigAtReg, sigints, listens, logs>>

\* Variant of HandlerResume: the process is ended with exit code 1.
HandlerResumeExitOne(h) ==
    /\ proc = "running"
    /\ h \in 1..Len(invocations)
    /\ invocations[h].pc = "await"
    /\ invocations[h].disc # "pending"
    /\ IF invocations[h].disc = "resolved"
         THEN /\ exitCalls' = Append(exitCalls, [code |-> 1, by |-> h])
              /\ proc' = "exited"
              /\ invocations' = [invocations EXCEPT ![h].pc = "exited"]
         ELSE /\ invocations' = [invocations EXCEPT ![h].pc = "threw"]
              /\ UNCHANGED <<exitCalls, proc>>
    /\ UNCHANGED <<config, configGets, port, chain, nCalled, pc, trace, connect,
                   dbResult, initResult, handlers, sigAtReg, sigints, listens, logs>>

\* The handler resumes after `await this.memoryStorage.disconnect()`: it
\* calls process.exit(0), or the await throws out of the handler.
HandlerResume(h) ==
    /\ proc = "running"
    /\ h \in 1..Len(invocations)
    /\ invocations[h].pc = "await"
    /\ invocations[h].disc # "pending"
    /\ IF invocations[h].disc = "resolved"
         THEN /\ exitCalls' = Append(exitCalls, [code |-> 0, by |-> h])
              /\ proc' = "exited"
              /\ invocations' = [invocations EXCEPT ![h].pc = "exited"]
         ELSE /\ invocations' = [invocations EXCEPT ![h].pc = "threw"]
              /\ UNCHANGED <<exitCalls, proc>>
    /\ UNCHANGED <<config, configGets, port, chain, nCalled, pc, trace, connect,
                   dbResult, initResult, handlers, sigAtReg, sigints, listens, logs>>

\* The promise of a handler that threw is unhandled: the host runtime may
\* end the process for it (depending on its unhandled-rejection mode).
UnhandledRejection(h) ==
    /\ proc = "running"
    /\ ~MicrotaskPending
    /\ h \in 1..Len(invocations)
    /\ invocations[h].pc = "threw"
    /\ proc' = "crashed"
    /\ UNCHANGED <<config, configGets, port, chain, nCalled, pc, trace, connect,
                   dbResult, initResult, handlers, sigAtReg, sigints, invocations,
                   listens, logs, exitCalls>>

Next ==
    \/ InitCall
    \/ \E id \in InitIds : ConnectSettle(id)
    \/ \E id \in InitIds : UseDatabaseResume(id)
    \/ \E id \in InitIds : InitResume(id)
    \/ \E i \in 1..Len(listens) : ListenCallback(i)
    \/ Sigint
    \/ \E h \in 1..Len(invocations) : DisconnectSettle(h)
    \/ \E h \in 1..Len(invocations) : HandlerResume(h)
    \/ \E h \in 1..Len(invocations) : UnhandledRejection(h)

Spec == Init /\ [][Next]_vars

\* The continuations of the awaits: the microtasks of the model.
Microtask ==
    \/ \E id \in InitIds : UseDatabaseResume(id)
    \/ \E id \in InitIds : InitResume(id)
    \/ \E h \in 1..Len(invocations) : HandlerResume(h)

\* The event loop runs every queued continuation and fires the listening
\* callback of a listener that was started.
FairSpec ==
    /\ Spec
    /\ WF_vars(Microtask)
    /\ WF_vars(\E i \in 1..Len(listens) : ListenCallback(i))

----
\* Properties

Range(s) == {s[i] : i \in 1..Len(s)}

IsPrefix(s, t) == Len(s) <= Len(t) /\ \A i \in 1..Len(s) : s[i] = t[i]

\* The steps of one init() call, in the order init() and useDatabase() name them.
StartupOrder ==
    <<"helmet", "urlencoded", "json", "morgan", "/users", "exceptionFilter",
      "connect", "onSIGINT", "listen">>

\* What one init() call registers on the express stack.
Registrations == useExceptionFilters(useRoutes(useMiddleware(<<>>)))

\* The listening callback of init() call id has fired.
Fired(id) == \E i \in 1..Len(listens) : listens[i].init = id /\ listens[i].fired

\* Progress of an init() call.
Rank(p) ==
    CASE p = "uncalled" -> 0
      [] p = "awaitConnect" -> 1
      [] p = "awaitUseDatabase" -> 2
      [] p = "settled" -> 3

\* C1: the steps of every init() call happen in the order helmet, urlencoded
\* parser, JSON parser, morgan, '/users' router, exception filter,
\* memoryStorage.connect(), SIGINT handler registration, app.listen: what a
\* call has done so far is always an initial part of that list, and the
\* handler is registered (and listen called) only once connect() has resolved.
C1_StartupOrder ==
    \A id \in InitIds :
        /\ IsPrefix(trace[id], StartupOrder)
        /\ "onSIGINT" \in Range(trace[id]) => connect[id] = "resolved"
        /\ "listen" \in Range(trace[id]) => id \in Range(handlers)

C1_Witness == \E id \in InitIds : trace[id] = StartupOrder

\* C2: if connect() rejects during an init() call, that call never calls
\* app.listen (so no listening callback of it logs the port), it adds no
\* SIGINT handler, and its promise settles only by rejecting with the failure
\* connect() rejected with.
C2_ConnectRejected ==
    /\ \A id \in InitIds :
          connect[id] \in Errors =>
            /\ "listen" \notin Range(trace[id])
            /\ \A i \in 1..Len(listens) : listens[i].init # id
            /\ ~Fired(id)
            /\ id \notin Range(handlers)
            /\ initResult[id] \in {"none", connect[id]}
            /\ pc[id] = "settled" => initResult[id] = connect[id]
    /\ Len(logs) <= Cardinality({id \in InitIds : connect[id] = "resolved"})

C2_Witness ==
    \E id \in InitIds :
        /\ connect[id] = "ETIMEDOUT"
        /\ pc[id] = "settled"
        /\ initResult[id] = "ETIMEDOUT"
        /\ listens = <<>>

\* C3: once the one init() call made on the instance has completed
\* successfully, each delivery of an interrupt signal invokes
\* memoryStorage.disconnect() exactly once and requests no exit in that step;
\* exit is requested only later, by a handler run whose disconnect() was
\* invoked before.
C3_DisconnectOnceBeforeExit ==
    [][ /\ (sigints' = sigints + 1 /\ nCalled = 1 /\ initResult[1] = "resolved")
           => /\ Len(invocations') = Len(invocations) + 1
              /\ invocations'[Len(invocations')].disc = "pending"
              /\ exitCalls' = exitCalls
              /\ proc' = proc
        /\ (nCalled' = 1 /\ exitCalls' # exitCalls)
           => /\ Len(invocations') = sigints'
              /\ exitCalls'[Len(exitCalls')].by \in 1..Len(invocations)
        /\ (nCalled' = 1 /\ proc' = "exited" /\ sigints' = 1)
           => Len(invocations') = 1
      ]_vars

C3_Witness ==
    /\ nCalled = 1
    /\ initResult[1] = "resolved"
    /\ sigints = 1
    /\ Len(invocations) = 1
    /\ proc = "exited"

\* C4 as claimed: every run of the SIGINT handler that has come to its end has
\* terminated the process with exit code 0.
C4_AlwaysExitsZero ==
    \A h \in 1..Len(invocations) :
        invocations[h].pc # "await" =>
            /\ proc = "exited"
            /\ exitCalls # <<>>
            /\ exitCalls[1].code = 0

\* Some disconnect() started by a SIGINT handler has resolved.
DisconnectResolved ==
    \E h \in 1..Len(invocations) : invocations[h].disc = "resolved"

\* The process has terminated through process.exit(0).
ExitedZero == proc = "exited" /\ exitCalls # <<>> /\ exitCalls[1].code = 0

\* C4 as amended: an interrupt delivered while SIGINT handlers are registered
\* calls disconnect() once per handler and awaits it; once a disconnect()
\* resolves, its handler requests exit with code 0 and the process
\* terminates; a handler whose disconnect() rejects requests no exit.
\* ("Once resolved, eventually exited" is stated as: resolved stays resolved,
\* and infinitely often not (resolved and not exited).)
C4_ExitsZeroIfDisconnectResolves ==
    /\ [][ (sigints' = sigints + 1 /\ handlers # <<>>)
             => /\ Len(invocations') = Len(invocations) + Len(handlers)
                /\ \A h \in (Len(invocations) + 1)..Len(invocations') :
                       invocations'[h].disc = "pending" /\ invocations'[h].pc = "await"
         ]_vars
    /\ [](\A i \in 1..Len(exitCalls) :
              /\ exitCalls[i].code = 0
              /\ exitCalls[i].by \in 1..Len(invocations)
              /\ invocations[exitCalls[i].by].disc = "resolved")
    /\ [](\A h \in 1..Len(invocations) :
              invocations[h].disc = "rejected" =>
                  \A i \in 1..Len(exitCalls) : exitCalls[i].by # h)
    /\ [][DisconnectResolved => DisconnectResolved']_vars
    /\ []<>(DisconnectResolved => ExitedZero)

C4_Witness ==
    /\ proc = "exited"
    /\ exitCalls = <<[code |-> 0, by |-> 2]>>
    /\ invocations[1].pc = "threw"
    /\ \E i \in 1..Len(listens) : ~listens[i].fired

\* C5: configService.get is called once, in the constructor; App.port never
\* changes and is the port of the server section; every app.listen call is
\* given that port and every info line reports it.
C5_PortFromConfig ==
    /\ port = config["server"].port
    /\ configGets = 1
    /\ [][ /\ port' = port
           /\ configGets' = configGets
           /\ \A i \in 1..Len(listens') : listens'[i].port = config["server"].port
           /\ \A i \in 1..Len(logs') :
                  logs'[i].message
                    = "Server started listening on port " \o ToString(config["server"].port)
       ]_vars

C5_Witness ==
    /\ config["server"].port = 4000
    /\ \E i \in 1..Len(listens) : listens[i].port = 4000 /\ listens[i].fired
    /\ \E i \in 1..Len(logs) :
           logs[i].message = "Server started listening on port 4000"

\* C6: the exception filter is registered last: every init() call leaves it
\* at the end of the stack, and within the registrations of each call no
\* middleware or route group comes after it.
C6_FilterLast ==
    /\ Len(chain) = nCalled * Len(Registrations)
    /\ chain # <<>> => chain[Len(chain)] = "exceptionFilter"
    /\ \A i \in 1..Len(chain) :
           chain[i] = "exceptionFilter" <=> i % Len(Registrations) = 0
    /\ nCalled = 1 => chain = Registrations

C6_Witness ==
    /\ nCalled = 1
    /\ chain[Len(chain)] = "exceptionFilter"
    /\ Len(chain) = 6
    /\ listens # <<>>

\* C7: a handler run requests exit only after its own disconnect() has
\* resolved; no run ends while its disconnect() is pending (no timeout); a
\* run whose disconnect() rejected throws and requests no exit.
C7_ExitOnlyAfterDisconnectSettled ==
    /\ \A i \in 1..Len(exitCalls) :
           /\ exitCalls[i].by \in 1..Len(invocations)
           /\ invocations[exitCalls[i].by].disc = "resolved"
           /\ invocations[exitCalls[i].by].pc = "exited"
    /\ \A h \in 1..Len(invocations) :
           /\ invocations[h].pc # "await" => invocations[h].disc # "pending"
           /\ invocations[h].pc = "exited" =>
                  /\ invocations[h].disc = "resolved"
                  /\ \E i \in 1..Len(exitCalls) : exitCalls[i].by = h
           /\ invocations[h].pc = "threw" =>
                  /\ invocations[h].disc = "rejected"
                  /\ \A i \in 1..Len(exitCalls) : exitCalls[i].by # h
    /\ proc = "exited" <=> exitCalls # <<>>

C7_Witness ==
    /\ proc = "exited"
    /\ \E h \in 1..Len(invocations) : invocations[h].pc = "threw"
    /\ \E h \in 1..Len(invocations) : invocations[h].disc = "pending"

\* C8: disconnect() is invoked and exit requested only by a handler whose
\* init() call saw connect() resolve, for a signal delivered after that
\* handler was registered; a signal delivered while no handler is registered
\* invokes no disconnect() and no process.exit; nothing is undone: a
\* terminated process takes no step, an init() call never moves back,
\* handlers are never removed and handler runs are never dropped.
C8_ShutdownOnlyAfterConnected ==
    [][ /\ \A h \in 1..Len(invocations') :
               LET id == invocations'[h].handler IN
                 /\ connect'[id] = "resolved"
                 /\ id \in Range(handlers')
                 /\ invocations'[h].sig > sigAtReg'[id]
                 /\ invocations'[h].sig <= sigints'
        /\ exitCalls' # <<>> => invocations' # <<>>
        /\ (sigints' = sigints + 1 /\ handlers = <<>>)
               => invocations' = invocations /\ exitCalls' = exitCalls /\ proc' = "killed"
        /\ proc # "running" => vars' = vars
        /\ \A id \in InitIds : Rank(pc'[id]) >= Rank(pc[id])
        /\ IsPrefix(handlers, handlers')
        /\ Len(invocations') >= Len(invocations)
      ]_vars

C8_Witness ==
    /\ proc = "killed"
    /\ invocations = <<>>
    /\ exitCalls = <<>>
    /\ \E id \in InitIds : connect[id] \in Errors
    /\ \E id \in InitIds : connect[id] = "pending"

\* init() call id has completed successfully, no interrupt has been delivered
\* and its info line has not been logged yet.
LogDue(id) == initResult[id] = "resolved" /\ ~Fired(id) /\ sigints = 0

\* C9: the info line of category 'app' is logged only by a listening
\* callback, hence after app.listen was called by an init() call whose
\* connect() resolved; and after a successful init() it is eventually logged
\* unless an interrupt is delivered.  ("Eventually" is stated as: a line that
\* is due stays due until it is logged or an interrupt arrives, and infinitely
\* often no line is due.)
C9_InfoLogAfterListen ==
    /\ [](/\ Len(logs) = Cardinality({i \in 1..Len(listens) : listens[i].fired})
          /\ \A i \in 1..Len(listens) :
                 /\ connect[listens[i].init] = "resolved"
                 /\ "listen" \in Range(trace[listens[i].init])
          /\ \A i \in 1..Len(logs) :
                 /\ logs[i].level = "info"
                 /\ logs[i].category = "app"
                 /\ logs[i].message = ListenMessage(port))
    /\ [][\A id \in InitIds : LogDue(id) => (LogDue(id)' \/ Fired(id)' \/ sigints' > 0)]_vars
    /\ []<>(\A id \in InitIds : ~LogDue(id))

C9_Witness ==
    /\ sigints = 0
    /\ Len(logs) = 1
    /\ logs[1] = [level |-> "info", category |-> "app",
                  message |-> "Server started listening on port 3000"]

\* C10: nothing guards against a second start or a second signal: every
\* init() call registers the whole stack again and calls connect() again,
\* every call whose connect() resolved has added one SIGINT handler and (once
\* completed) called listen, every interrupt invokes disconnect() once per
\* registered handler, also while earlier disconnects are pending.
C10_NoGuards ==
    [][ /\ nCalled' = nCalled + 1
           => /\ chain' = chain \o Registrations
              /\ connect'[nCalled'] = "pending"
        /\ Len(handlers') = Cardinality({id \in InitIds : dbResult'[id] = "resolved"})
        /\ Len(listens') = Cardinality({id \in InitIds : initResult'[id] = "resolved"})
        /\ sigints' = sigints + 1
           => /\ Len(invocations') = Len(invocations) + Len(handlers)
              /\ \A h \in (Len(invocations) + 1)..Len(invocations') :
                     invocations'[h].disc = "pending"
      ]_vars

C10_Witness ==
    /\ nCalled = 2
    /\ Len(handlers) = 2
    /\ Len(listens) = 2
    /\ Len(chain) = 12
    /\ sigints = 2
    /\ Len(invocations) = 4
    /\ \A h \in 1..4 : invocations[h].disc = "pending"

====
